---------------------------- MODULE Spec2Model ----------------------------
(***************************************************************************)
(* A model of typish/_classes.py: SubscriptableType (parametrized type     *)
(* patterns with equality and memoized hash), Something (structural        *)
(* interfaces), ClsDict (dispatch by subclass compatibility) and           *)
(* ClsFunction (call routing through a ClsDict).                           *)
(***************************************************************************)
EXTENDS Integers, Sequences, FiniteSets, TLC

VARIABLES
    classes,    \* heap of class objects created through SubscriptableType
    presult,    \* outcome of the last SubscriptableType operation
    ifaces,     \* heap of Something[...] patterns, in order of construction
    sresult,    \* outcome of the last operation on a Something pattern
    table,      \* the ClsDict bound by the last successful construction
    dresult,    \* outcome of the last ClsDict operation
    fn,         \* the ClsFunction bound by the last successful construction
    fresult     \* outcome of the last ClsFunction operation

vars == <<classes, presult, ifaces, sresult, table, dresult, fn, fresult>>
pvars == <<classes, presult>>
svars == <<ifaces, sresult>>
dvars == <<table, dresult>>
fvars == <<fn, fresult>>

(***************************************************************************)
(* Bounds of the model.                                                    *)
(***************************************************************************)
MaxDerived == 2
MaxSigLen == 2
MaxEntries == 2

(***************************************************************************)
(* Python values used as parametrization payloads.                         *)
(***************************************************************************)
NoneV == [tag |-> "None", v |-> ""]
StrV(s) == [tag |-> "str", v |-> s]
ArgPayloads == {StrV("a"), StrV("b")}

\* str(x) of a payload, as '{}'.format(x) renders it.
StrOfValue(x) == IF x.tag = "None" THEN "None" ELSE x.v

\* Sentinel for "no '_hash' entry in the namespace that was searched".
NoHash == ""

(***************************************************************************)
(* The classes that exist before any parametrization: two classes whose    *)
(* metaclass is SubscriptableType itself and one whose metaclass is a      *)
(* subclass of SubscriptableType (for which __init_subclass__ ran).        *)
(* A class is a record: name (__name__), meta (its metaclass), origin      *)
(* (index of __origin__, 0 when the class has none in its namespace), args *)
(* (__args__), hashslot (the '_hash' entry of its own __dict__) and base   *)
(* (index of its first base class, 0 for object).                          *)
(***************************************************************************)
RootClasses ==
    << [name |-> "O1", meta |-> "SubscriptableType", origin |-> 0,
        args |-> NoneV, hashslot |-> NoHash, base |-> 0],
       [name |-> "O2", meta |-> "SubscriptableType", origin |-> 0,
        args |-> NoneV, hashslot |-> NoHash, base |-> 0],
       [name |-> "M", meta |-> "SubMeta", origin |-> 0,
        args |-> NoneV, hashslot |-> NoHash, base |-> 0] >>

NumRoots == Len(RootClasses)

IsParametrized(h, c) == h[c].origin # 0

\* SubscriptableType.__init_subclass__: a metaclass derived from
\* SubscriptableType carries _hash = __args__ = __origin__ = None, which its
\* classes see through attribute lookup on the metaclass.
MetaHasDefaults(meta) == meta # "SubscriptableType"

\* getattr(c, '__args__', None) and getattr(c, '__origin__', None).
GetArgs(h, c) == IF c = 0 THEN NoneV ELSE h[c].args
GetOrigin(h, c) == IF c = 0 THEN 0 ELSE h[c].origin

\* getattr(c, '_hash', None): the class's own namespace, then its bases in
\* MRO order (a parametrized class derives from its origin); the metaclass
\* default is None, which is as falsy as a missing attribute.
RECURSIVE GetHashAttr(_, _)
GetHashAttr(h, c) ==
    IF c = 0 THEN NoHash
    ELSE IF h[c].hashslot # NoHash THEN h[c].hashslot
    ELSE GetHashAttr(h, h[c].base)

\* '{}'.format(cls): the repr of a class names only its module and
\* qualified name, which a parametrized class copies from its origin (the
\* module prefix, the same for every class of the model, is left out).
StrOfClass(h, c) == IF c = 0 THEN "None" ELSE "<class '" \o h[c].name \o "'>"

\* '{}{}'.format(self.__origin__, self.__args__); hash() of a str is modelled
\* by the string itself (equal strings hash equal, distinct ones differ).
FormatOriginArgs(h, c) == StrOfClass(h, h[c].origin) \o StrOfValue(h[c].args)

\* self.__origin__ without a default: missing on a class of the plain
\* metaclass that was never parametrized.
HasOriginAttr(h, c) == IsParametrized(h, c) \/ MetaHasDefaults(h[c].meta)

(***************************************************************************)
(* SubscriptableType.__eq__ on class objects; 0 stands for None.  The      *)
(* origins are compared with ==, which for classes of this metaclass is    *)
(* this same method (reflected when the left operand is None).             *)
(***************************************************************************)
RECURSIVE SubscriptableType__eq__(_, _, _)
SubscriptableType__eq__(h, self, other) ==
    LET self_args == GetArgs(h, self)
        self_origin == GetOrigin(h, self)
        other_args == GetArgs(h, other)
        other_origin == GetOrigin(h, other)
        originsEq ==
            IF self_origin = 0 /\ other_origin = 0 THEN TRUE
            ELSE IF self_origin = 0
                 THEN SubscriptableType__eq__(h, other_origin, self_origin)
                 ELSE SubscriptableType__eq__(h, self_origin, other_origin)
    IN  self_args = other_args /\ originsEq

(***************************************************************************)
(* SubscriptableType.__getitem__: the class built by                       *)
(* type(self.__name__, (self, *self.__bases__), {**self.__dict__, ...}).   *)
(* No class of the model defines the optional _after_subscription hook.    *)
(***************************************************************************)
SubscriptableType__getitem__(h, self, item) ==
    [name |-> h[self].name, meta |-> h[self].meta, origin |-> self,
     args |-> item, hashslot |-> h[self].hashslot, base |-> self]

(***************************************************************************)
(* SubscriptableType.__hash__: the value returned and the value left in    *)
(* the class's own '_hash'.                                                *)
(***************************************************************************)
SubscriptableType__hash__(h, self) ==
    LET cached == GetHashAttr(h, self)
    IN  IF cached # NoHash THEN [raised |-> FALSE, value |-> cached, slot |-> h[self].hashslot]
        ELSE IF ~HasOriginAttr(h, self)
             THEN [raised |-> TRUE, value |-> "AttributeError", slot |-> h[self].hashslot]
             ELSE [raised |-> FALSE, value |-> FormatOriginArgs(h, self),
                   slot |-> FormatOriginArgs(h, self)]

(***************************************************************************)
(* Operations on patterns.                                                 *)
(***************************************************************************)
PIdle == [op |-> "init", self |-> 0, other |-> 0, bval |-> FALSE, hval |-> ""]

Parametrize ==
    \E self \in 1..Len(classes), item \in ArgPayloads :
        /\ Len(classes) < NumRoots + MaxDerived
        /\ classes' = Append(classes, SubscriptableType__getitem__(classes, self, item))
        /\ presult' = [op |-> "getitem", self |-> self, other |-> Len(classes) + 1,
                       bval |-> FALSE, hval |-> ""]
        /\ UNCHANGED <<svars, dvars, fvars>>

HashPattern ==
    \E self \in 1..Len(classes) :
        LET r == SubscriptableType__hash__(classes, self)
        IN  /\ classes' = [classes EXCEPT ![self].hashslot = r.slot]
            /\ presult' = [op |-> "hash", self |-> self, other |-> 0,
                           bval |-> r.raised, hval |-> r.value]
            /\ UNCHANGED <<svars, dvars, fvars>>

ComparePatterns ==
    \E self \in 1..Len(classes), other \in 0..Len(classes) :
        /\ presult' = [op |-> "eq", self |-> self, other |-> other,
                       bval |-> SubscriptableType__eq__(classes, self, other), hval |-> ""]
        /\ UNCHANGED <<classes, svars, dvars, fvars>>

PNext == Parametrize \/ HashPattern \/ ComparePatterns



(***************************************************************************)
(* Type patterns that occur as signature values and as dispatch keys:      *)
(* plain types, Callable[[params], ret] and the bare Callable.             *)
(***************************************************************************)
TypeP(n) == [k |-> "type", name |-> n, params |-> <<>>, ret |-> ""]
CallableP(ps, r) == [k |-> "callable", name |-> "Callable", params |-> ps, ret |-> r]
BareCallable == [k |-> "callable_bare", name |-> "Callable", params |-> <<>>, ret |-> ""]

(***************************************************************************)
(* The type algebra of typish._functions, which _classes.py imports.       *)
(***************************************************************************)
\* issubclass on the plain types of the model; Any is compatible both ways.
PlainSubclass(a, b) ==
    \/ a = b
    \/ b = "object"
    \/ a = "Any" \/ b = "Any"
    \/ (a = "bool" /\ b = "int")

\* subclass_of(A, B): every value satisfying A also satisfies B.
subclass_of(A, B) ==
    CASE B.k = "callable_bare" -> A.k \in {"callable", "callable_bare"}
      [] B.k = "type" /\ A.k = "type" -> PlainSubclass(A.name, B.name)
      [] B.k = "type" /\ A.k # "type" -> B.name \in {"object", "Any"}
      [] B.k = "callable" /\ A.k = "callable" ->
            /\ Len(A.params) = Len(B.params)
            /\ \A i \in 1..Len(A.params) : PlainSubclass(A.params[i], B.params[i])
            /\ PlainSubclass(A.ret, B.ret)
      [] OTHER -> FALSE

\* get_type(value): a runtime value carries the pattern of its type.
get_type(value) == value.type

\* instance_of(value, pattern).
instance_of(value, pattern) == subclass_of(get_type(value), pattern)

\* get_args_and_return_type(callable_pattern).
get_args_and_return_type(hint) == <<hint.params, hint.ret>>

(***************************************************************************)
(* Something: the payload given to Something[...] is a dict (entries in    *)
(* insertion order), a tuple of slices name:pattern, or a single slice.    *)
(* An entry is <<name, pattern>>.                                          *)
(***************************************************************************)
AttrNames == {"a", "b", "run"}

\* Python's ordering of the attribute names (str comparison).
NameRank(n) == CASE n = "a" -> 1 [] n = "b" -> 2 [] n = "run" -> 3

\* The patterns an interface may require of each attribute.
SigPatterns(n) ==
    CASE n = "a" -> {TypeP("int"), TypeP("str")}
      [] n = "b" -> {TypeP("str")}
      [] n = "run" -> {CallableP(<<"int">>, "int")}

AllEntries == UNION { { <<nm, pt>> : pt \in SigPatterns(nm) } : nm \in AttrNames }

\* Entry lists with distinct names, at most MaxSigLen long.
EntryLists ==
    UNION { { es \in [1..n -> AllEntries] :
                \A i, j \in 1..n : i # j => es[i][1] # es[j][1] }
            : n \in 0..MaxSigLen }

\* The payloads Something[...] is subscripted with.
SomethingPayloads ==
    { [form |-> f, entries |-> es] : f \in {"dict", "slices"}, es \in EntryLists }
    \cup { [form |-> "slice", entries |-> es] : es \in { e \in EntryLists : Len(e) = 1 } }

\* sorted(args): the keys of a dict, or the slices (ordered by their start),
\* in ascending order.
RECURSIVE InsertSorted(_, _)
InsertSorted(e, s) ==
    IF s = <<>> THEN <<e>>
    ELSE IF NameRank(e[1]) < NameRank(Head(s)[1]) THEN <<e>> \o s
    ELSE <<Head(s)>> \o InsertSorted(e, Tail(s))

RECURSIVE SortedEntries(_)
SortedEntries(s) ==
    IF s = <<>> THEN <<>> ELSE InsertSorted(Head(s), SortedEntries(Tail(s)))

\* Something.signature(): the OrderedDict, as its (key, value) items in order.
Something_signature(args) ==
    LET tuple == args.entries   \* a single slice is wrapped into a 1-tuple
        arg_keys == SortedEntries(tuple)
    IN  arg_keys

SigKeys(sig) == { sig[i][1] : i \in 1..Len(sig) }
SigGet(sig, key) == (CHOOSE i \in 1..Len(sig) : sig[i][1] = key)

\* _SomethingMeta.__eq__; other = 0 stands for an object that is no Something.
SomethingMeta__eq__(h, self, other) ==
    /\ other # 0
    /\ Something_signature(h[self]) = Something_signature(h[other])

\* _SomethingMeta.__hash__: super.__hash__(self) is object.__hash__ applied
\* to the pattern, the identity hash; distinct live objects hash differently.
SomethingMeta__hash__(h, self) == self

(***************************************************************************)
(* Runtime objects inspected by the instance check: each attribute is      *)
(* missing, or a value with its truthiness and the pattern of its type.    *)
(***************************************************************************)
Missing == [present |-> FALSE, truthy |-> FALSE, type |-> TypeP("NoneType")]
Val(tr, ty) == [present |-> TRUE, truthy |-> tr, type |-> ty]

AttrValues(n) ==
    CASE n = "a" -> {Missing, Val(TRUE, TypeP("int")), Val(FALSE, TypeP("int")),
                     Val(FALSE, TypeP("NoneType")), Val(TRUE, TypeP("str"))}
      [] n = "b" -> {Missing, Val(TRUE, TypeP("str"))}
      [] n = "run" -> {Missing, Val(TRUE, CallableP(<<"int">>, "int"))}

Objects == { o \in [AttrNames -> UNION { AttrValues(n) : n \in AttrNames }] :
               \A n \in AttrNames : o[n] \in AttrValues(n) }

\* getattr(instance, key, None): a missing attribute reads as None.
GetAttrOrNone(instance, key) ==
    IF instance[key].present THEN instance[key] ELSE Val(FALSE, TypeP("NoneType"))

\* _SomethingMeta.__instancecheck__: the loop over the signature, from entry i.
RECURSIVE InstanceCheckFrom(_, _, _)
InstanceCheckFrom(sig, instance, i) ==
    IF i > Len(sig) THEN TRUE
    ELSE LET key == sig[i][1]
             attr == GetAttrOrNone(instance, key)
         IN  IF ~attr.truthy \/ ~instance_of(attr, sig[i][2]) THEN FALSE
             ELSE InstanceCheckFrom(sig, instance, i + 1)

\* Variant without the truthiness test of line 81 (only instance_of decides).
RECURSIVE InstanceCheckNoTruthyFrom(_, _, _)
InstanceCheckNoTruthyFrom(sig, instance, i) ==
    IF i > Len(sig) THEN TRUE
    ELSE IF ~instance[sig[i][1]].present
            \/ ~instance_of(instance[sig[i][1]], sig[i][2]) THEN FALSE
    ELSE InstanceCheckNoTruthyFrom(sig, instance, i + 1)

InstanceCheckNoTruthy(args, instance) ==
    InstanceCheckNoTruthyFrom(Something_signature(args), instance, 1)

SomethingMeta__instancecheck__(args, instance) ==
    InstanceCheckFrom(Something_signature(args), instance, 1)

(***************************************************************************)
(* Candidate classes inspected by the subclass check.  A member is absent, *)
(* defined in the class body ("own", an entry of subclass.__dict__) or     *)
(* inherited (listed by dir() but no entry of subclass.__dict__).  kind is *)
(* what the __dict__ entry is; type is get_type(getattr(subclass, name)):  *)
(* a plain function keeps its receiver parameter, a staticmethod has none, *)
(* and a classmethod is read as a bound method, its receiver already gone. *)
(***************************************************************************)
NoMember == [where |-> "absent", kind |-> "attr", type |-> TypeP("NoneType")]
Member(w, kd, ty) == [where |-> w, kind |-> kd, type |-> ty]

ClassMembers(n) ==
    CASE n = "a" -> {NoMember, Member("own", "attr", TypeP("int")),
                     Member("own", "attr", TypeP("str")),
                     Member("inherited", "attr", TypeP("int"))}
      [] n = "b" -> {NoMember, Member("own", "attr", TypeP("str"))}
      [] n = "run" ->
            {NoMember,
             Member("own", "function", CallableP(<<"Any", "int">>, "int")),
             Member("own", "function", CallableP(<<"Any", "int", "int">>, "int")),
             Member("own", "staticmethod", CallableP(<<"int">>, "int")),
             Member("own", "staticmethod", CallableP(<<"int", "int">>, "int")),
             Member("own", "classmethod", CallableP(<<"int">>, "int")),
             Member("inherited", "function", CallableP(<<"Any", "int">>, "int"))}

CandidateClasses ==
    { c \in [AttrNames -> UNION { ClassMembers(n) : n \in AttrNames }] :
        \A n \in AttrNames : c[n] \in ClassMembers(n) }

\* Something.like(obj): the dict {attr: get_type(getattr(obj, attr))} over
\* dir(obj), which lists own and inherited names in sorted order.
RECURSIVE LikeEntries(_, _)
LikeEntries(obj, names) ==
    IF names = <<>> THEN <<>>
    ELSE LET n == Head(names)
             rest == LikeEntries(obj, Tail(names))
         IN  IF obj[n].where = "absent" THEN rest ELSE <<<<n, obj[n].type>>>> \o rest

Something_like(obj) == [form |-> "dict", entries |-> LikeEntries(obj, <<"a", "b", "run">>)]

\* Lines 92-99: the candidate's pattern for attr, with the first parameter
\* dropped when the __dict__ entry is neither a staticmethod nor a
\* classmethod and the pattern is a Callable.
AdjustedAttrSig(subclass, attr_sig, attr) ==
    IF /\ subclass[attr].kind # "staticmethod"
       /\ subclass[attr].kind # "classmethod"
       /\ subclass_of(attr_sig, BareCallable)
    THEN LET ar == get_args_and_return_type(attr_sig)
             args == ar[1]
             rt == ar[2]
         IN  CallableP(SubSeq(args, 2, Len(args)), rt)
    ELSE attr_sig

\* _SomethingMeta.__subclasscheck__: the loop over self's signature, from
\* entry i.  subclass.__dict__[attr] raises KeyError for an inherited name.
RECURSIVE SubclassCheckFrom(_, _, _, _)
SubclassCheckFrom(self_sig, other_sig, subclass, i) ==
    IF i > Len(self_sig) THEN "True"
    ELSE LET attr == self_sig[i][1]
         IN  IF attr \in SigKeys(other_sig)
             THEN IF subclass[attr].where # "own" THEN "KeyError"
                  ELSE LET attr_sig == AdjustedAttrSig(subclass,
                                           other_sig[SigGet(other_sig, attr)][2], attr)
                       IN  IF ~subclass_of(attr_sig, self_sig[i][2]) THEN "False"
                           ELSE SubclassCheckFrom(self_sig, other_sig, subclass, i + 1)
             ELSE SubclassCheckFrom(self_sig, other_sig, subclass, i + 1)

SomethingMeta__subclasscheck__(args, subclass) ==
    SubclassCheckFrom(Something_signature(args),
                      Something_signature(Something_like(subclass)), subclass, 1)

(***************************************************************************)
(* Operations on Something patterns.                                       *)
(***************************************************************************)
SIdle == [op |-> "init", self |-> 0, other |-> 0, subject |-> Missing, value |-> "None",
          sig |-> <<>>]

\* Something[payload], while fewer than limit patterns are alive.
MakeSomething(limit) ==
    \E payload \in SomethingPayloads :
        /\ Len(ifaces) < limit
        /\ ifaces' = Append(ifaces, payload)
        /\ sresult' = [SIdle EXCEPT !.op = "getitem", !.self = Len(ifaces) + 1]
        /\ UNCHANGED <<pvars, dvars, fvars>>

BoolStr(b) == IF b THEN "True" ELSE "False"

CompareSomething ==
    \E self \in 1..Len(ifaces), other \in 0..Len(ifaces) :
        /\ sresult' = [SIdle EXCEPT !.op = "eq", !.self = self, !.other = other,
                          !.value = BoolStr(SomethingMeta__eq__(ifaces, self, other))]
        /\ UNCHANGED <<ifaces, pvars, dvars, fvars>>

HashSomething ==
    \E self \in 1..Len(ifaces) :
        /\ sresult' = [SIdle EXCEPT !.op = "hash", !.self = self,
                          !.other = SomethingMeta__hash__(ifaces, self)]
        /\ UNCHANGED <<ifaces, pvars, dvars, fvars>>

SignatureOfSomething ==
    \E self \in 1..Len(ifaces) :
        /\ sresult' = [SIdle EXCEPT !.op = "signature", !.self = self,
                          !.sig = Something_signature(ifaces[self])]
        /\ UNCHANGED <<ifaces, pvars, dvars, fvars>>

IsInstance ==
    \E self \in 1..Len(ifaces), instance \in Objects :
        /\ sresult' = [SIdle EXCEPT !.op = "isinstance", !.self = self,
                          !.subject = instance,
                          !.value = BoolStr(SomethingMeta__instancecheck__(ifaces[self], instance))]
        /\ UNCHANGED <<ifaces, pvars, dvars, fvars>>

IsSubclass ==
    \E self \in 1..Len(ifaces), subclass \in CandidateClasses :
        /\ sresult' = [SIdle EXCEPT !.op = "issubclass", !.self = self,
                          !.subject = subclass,
                          !.value = SomethingMeta__subclasscheck__(ifaces[self], subclass)]
        /\ UNCHANGED <<ifaces, pvars, dvars, fvars>>

\* Two patterns alive: construction, equality, hash, signature.
SEqNext == MakeSomething(2) \/ CompareSomething \/ HashSomething \/ SignatureOfSomething

\* One pattern checked against objects and candidate classes.
SCheckNext == MakeSomething(1) \/ IsInstance \/ IsSubclass

(***************************************************************************)
(* ClsDict.  A dict is the sequence of its (key, value) items in insertion *)
(* order, with distinct keys.  Keys are type patterns or, for a malformed  *)
(* dict, the str 'x'; values are handlers.                                 *)
(***************************************************************************)
StrKey(x) == [k |-> "value", name |-> x, params |-> <<>>, ret |-> ""]

TypeKeys == {TypeP("object"), TypeP("int"), TypeP("str")}
DictKeys == TypeKeys \cup {StrKey("x")}
Handlers == {"h1", "h2"}

\* The handlers are the lambdas of the tests: h1 takes one parameter
\* (lambda x: ...), h2 takes two (lambda x, y: ...).
HandlerArity(h) == IF h = "h1" THEN 1 ELSE 2

\* handler(*args): the call returns when the argument count fits the
\* handler's parameters and raises TypeError otherwise.
CallHandler(h, args) == IF Len(args) = HandlerArity(h) THEN "" ELSE "TypeError"

\* is_type_annotation(key).
is_type_annotation(key) == key.k # "value"

ItemLists(keys) ==
    UNION { { es \in [1..n -> keys \X Handlers] :
                \A i, j \in 1..n : i # j => es[i][1] # es[j][1] }
            : n \in 0..MaxEntries }

\* Values passed positionally to ClsDict(...): dicts, ClsDicts and the int 123.
DictArg(items) == [kind |-> "dict", items |-> items]
ClsDictArg(items) == [kind |-> "ClsDict", items |-> items]
IntArg == [kind |-> "int", items |-> <<>>]

ArgValues ==
    { DictArg(es) : es \in ItemLists(DictKeys) }
    \cup { ClsDictArg(es) : es \in ItemLists(TypeKeys) }
    \cup {IntArg}

SecondArgs == {DictArg(<<>>), DictArg(<< <<TypeP("int"), "h1">> >>), IntArg}

\* The positional-argument lists *args of the model.
PositionalLists ==
    {<<>>} \cup { <<v>> : v \in ArgValues } \cup { <<v, w>> : v \in SecondArgs, w \in SecondArgs }

\* isinstance(x, dict): a ClsDict is a dict.
IsDict(x) == x.kind \in {"dict", "ClsDict"}

AllKeysAreTypes(items) == \A i \in 1..Len(items) : is_type_annotation(items[i][1])

\* ClsDict.__new__ followed by dict.__init__(self, *args): the exception
\* raised, or the items of the constructed table.
ClsDict__new__(args) ==
    IF Len(args) > 1
    THEN [raised |-> "TypeError", items |-> <<>>]
    ELSE IF args # <<>> /\ ~IsDict(args[1])
    THEN [raised |-> "TypeError", items |-> <<>>]
    ELSE IF args = <<>>   \* args[0] of an empty tuple
    THEN [raised |-> "IndexError", items |-> <<>>]
    ELSE IF ~AllKeysAreTypes(args[1].items)
    THEN [raised |-> "TypeError", items |-> <<>>]
    ELSE [raised |-> "", items |-> args[1].items]

\* The items looked up: runtime values with their repr and type pattern.
Item(r, t) == [repr |-> r, type |-> TypeP(t)]
DispatchItems == {Item("1", "int"), Item("True", "bool"), Item("text", "str"),
                  Item("3.0", "float")}

\* Variant of the scan that lets a later matching entry override an earlier one.
RECURSIVE LastMatchFrom(_, _, _, _)
LastMatchFrom(items, item_type, i, acc) ==
    IF i > Len(items) THEN acc
    ELSE LastMatchFrom(items, item_type, i + 1,
            IF subclass_of(item_type, items[i][1])
            THEN [raised |-> "", value |-> items[i][2], message |-> ""] ELSE acc)

ClsDict__getitem__LastMatch(items, item) ==
    LastMatchFrom(items, get_type(item), 1,
        [raised |-> "KeyError", value |-> "", message |-> "No match for " \o item.repr])

\* Variant that matches a key only when it equals the item's type.
ClsDict__getitem__Exact(items, item) ==
    IF \E i \in 1..Len(items) : items[i][1] = get_type(item)
    THEN [raised |-> "", message |-> "",
          value |-> items[CHOOSE i \in 1..Len(items) : items[i][1] = get_type(item)][2]]
    ELSE [raised |-> "KeyError", value |-> "", message |-> "No match for " \o item.repr]

\* ClsDict.__getitem__: the scan of self.items() from entry i.
RECURSIVE GetItemFrom(_, _, _, _)
GetItemFrom(items, item, item_type, i) ==
    IF i > Len(items)
    THEN [raised |-> "KeyError", value |-> "", message |-> "No match for " \o item.repr]
    ELSE IF subclass_of(item_type, items[i][1])
    THEN [raised |-> "", value |-> items[i][2], message |-> ""]
    ELSE GetItemFrom(items, item, item_type, i + 1)

ClsDict__getitem__(items, item) == GetItemFrom(items, item, get_type(item), 1)

\* Variant of get that returns None on a miss, whatever default was given.
ClsDict_getNone(items, item, default) ==
    LET r == ClsDict__getitem__(items, item)
    IN  IF r.raised = "KeyError" THEN [raised |-> "", value |-> "None", message |-> ""] ELSE r

\* ClsDict.get.
ClsDict_get(items, item, default) ==
    LET r == ClsDict__getitem__(items, item)
    IN  IF r.raised = "KeyError" THEN [raised |-> "", value |-> default, message |-> ""] ELSE r

(***************************************************************************)
(* Operations on a ClsDict.                                                *)
(***************************************************************************)
NoTable == [built |-> FALSE, items |-> <<>>]

DIdle == [op |-> "init", args |-> <<>>, item |-> Item("", "NoneType"), default |-> "",
          raised |-> "", value |-> "", message |-> ""]

\* t = ClsDict(*args): t is bound only when no exception is raised.
NewClsDict ==
    \E args \in PositionalLists :
        LET r == ClsDict__new__(args)
        IN  /\ table' = IF r.raised = "" THEN [built |-> TRUE, items |-> r.items] ELSE table
            /\ dresult' = [DIdle EXCEPT !.op = "new", !.args = args, !.raised = r.raised]
            /\ UNCHANGED <<pvars, svars, fvars>>

\* t[item]
GetItem ==
    \E item \in DispatchItems :
        LET r == ClsDict__getitem__(table.items, item)
        IN  /\ table.built
            /\ dresult' = [DIdle EXCEPT !.op = "getitem", !.item = item, !.raised = r.raised,
                              !.value = r.value, !.message = r.message]
            /\ UNCHANGED <<table, pvars, svars, fvars>>

\* t.get(item) and t.get(item, default)
Get ==
    \E item \in DispatchItems, default \in {"None", "dflt"} :
        LET r == ClsDict_get(table.items, item, default)
        IN  /\ table.built
            /\ dresult' = [DIdle EXCEPT !.op = "get", !.item = item, !.default = default,
                              !.raised = r.raised, !.value = r.value, !.message = r.message]
            /\ UNCHANGED <<table, pvars, svars, fvars>>

DNext == NewClsDict \/ GetItem \/ Get

(***************************************************************************)
(* ClsFunction: a callable around a ClsDict (self.body).                   *)
(***************************************************************************)
\* ClsFunction.__init__(body): a ClsDict is kept, a dict is wrapped in a
\* ClsDict, anything else is a TypeError.
ClsFunction__init__(body) ==
    IF body.kind = "ClsDict" THEN [raised |-> "", items |-> body.items]
    ELSE IF body.kind = "dict" THEN ClsDict__new__(<<body>>)
    ELSE [raised |-> "TypeError", items |-> <<>>]

\* ClsFunction.understands(item): whether self.body[item] succeeds.
ClsFunction_understands(body, item) == ClsDict__getitem__(body, item).raised = ""

\* ClsFunction.__call__(*args): the handler found for args[0] is called with
\* all of args; invoked lists the handler calls made.  A call without
\* arguments is a TypeError, and so is a handler called with an argument
\* count it does not accept (the handler's own failure, not masked).
ClsFunction__call__(body, args) ==
    IF args = <<>> THEN [raised |-> "TypeError", invoked |-> <<>>]
    ELSE LET r == ClsDict__getitem__(body, args[1])
         IN  IF r.raised # "" THEN [raised |-> r.raised, invoked |-> <<>>]
             ELSE [raised |-> CallHandler(r.value, args),
                   invoked |-> << [handler |-> r.value, args |-> args] >>]

CallArgLists ==
    UNION { [1..n -> DispatchItems] : n \in 0..2 }

NoFn == [built |-> FALSE, body |-> <<>>]

FIdle == [op |-> "init", args |-> <<>>, raised |-> "", value |-> "", invoked |-> <<>>]

\* f = ClsFunction(body)
NewClsFunction ==
    \E body \in ArgValues :
        LET r == ClsFunction__init__(body)
        IN  /\ fn' = IF r.raised = "" THEN [built |-> TRUE, body |-> r.items] ELSE fn
            /\ fresult' = [FIdle EXCEPT !.op = "new", !.raised = r.raised]
            /\ UNCHANGED <<pvars, svars, dvars>>

\* f.understands(item)
Understands ==
    \E item \in DispatchItems :
        /\ fn.built
        /\ fresult' = [FIdle EXCEPT !.op = "understands", !.args = <<item>>,
                          !.value = BoolStr(ClsFunction_understands(fn.body, item))]
        /\ UNCHANGED <<fn, pvars, svars, dvars>>

\* f(*args)
Call ==
    \E args \in CallArgLists :
        LET r == ClsFunction__call__(fn.body, args)
        IN  /\ fn.built
            /\ fresult' = [FIdle EXCEPT !.op = "call", !.args = args, !.raised = r.raised,
                              !.invoked = r.invoked]
            /\ UNCHANGED <<fn, pvars, svars, dvars>>

FNext == NewClsFunction \/ Understands \/ Call

(***************************************************************************)
(* Specifications: one per component, the other components idle.  Before   *)
(* any operation only the root classes exist; no Something pattern,        *)
(* ClsDict or ClsFunction has been constructed.                            *)
(***************************************************************************)
Init ==
    /\ classes = RootClasses
    /\ presult = PIdle
    /\ ifaces = <<>>
    /\ sresult = SIdle
    /\ table = NoTable
    /\ dresult = DIdle
    /\ fn = NoFn
    /\ fresult = FIdle

SpecPattern == Init /\ [][PNext]_vars
SpecSomething == Init /\ [][SEqNext]_vars
SpecCheck == Init /\ [][SCheckNext]_vars
SpecDict == Init /\ [][DNext]_vars
SpecFunction == Init /\ [][FNext]_vars

(***************************************************************************)
(* Properties of SubscriptableType patterns.                               *)
(***************************************************************************)
IsRoot(c) == c # 0 /\ ~IsParametrized(classes, c)

\* C1: two parametrized patterns O1[A1] and O2[A2] built on unparametrized
\* origin types compare equal exactly when O1 and O2 are the same origin
\* type and A1 equals A2; in particular patterns of two different origin
\* types with the same arguments are not equal.
C1_EqualIffSameOriginAndArgs ==
    (/\ presult.op = "eq"
     /\ presult.other # 0
     /\ IsParametrized(classes, presult.self)
     /\ IsParametrized(classes, presult.other)
     /\ IsRoot(classes[presult.self].origin)
     /\ IsRoot(classes[presult.other].origin))
    => presult.bval = (/\ classes[presult.self].origin = classes[presult.other].origin
                       /\ classes[presult.self].args = classes[presult.other].args)

\* C2: the hash of a parametrized pattern, as returned and as memoized, is
\* the hash of its own (origin, arguments), whatever was parametrized or
\* hashed before; so two patterns with the same origin and arguments never
\* return different hashes.
C2_HashIsOfOwnOriginAndArgs ==
    /\ (presult.op = "hash" /\ ~presult.bval /\ IsParametrized(classes, presult.self))
         => presult.hval = FormatOriginArgs(classes, presult.self)
    /\ \A c \in 1..Len(classes) :
         (IsParametrized(classes, c) /\ classes[c].hashslot # NoHash)
            => classes[c].hashslot = FormatOriginArgs(classes, c)
    /\ \A c, d \in 1..Len(classes) :
         (/\ IsParametrized(classes, c) /\ IsParametrized(classes, d)
          /\ classes[c].origin = classes[d].origin
          /\ classes[c].args = classes[d].args
          /\ classes[c].hashslot # NoHash /\ classes[d].hashslot # NoHash)
            => classes[c].hashslot = classes[d].hashslot

(***************************************************************************)
(* Properties of Something patterns.                                       *)
(***************************************************************************)
EntrySet(args) == { args.entries[k] : k \in 1..Len(args.entries) }

IsSortedByName(sig) ==
    \A i, j \in 1..Len(sig) : i < j => NameRank(sig[i][1]) < NameRank(sig[j][1])

\* C3: two Something patterns holding the same attribute names with the same
\* patterns compare equal and hash equal, whatever the order of the entries
\* and whether the payload was a dict or slices; signature() is in sorted
\* key order.
C3_SameEntriesEqualAndHashEqual ==
    \A i, j \in 1..Len(ifaces) :
        /\ IsSortedByName(Something_signature(ifaces[i]))
        /\ EntrySet(ifaces[i]) = EntrySet(ifaces[j])
             => /\ SomethingMeta__eq__(ifaces, i, j)
                /\ SomethingMeta__hash__(ifaces, i) = SomethingMeta__hash__(ifaces, j)

\* What a satisfied entry means for an object: the attribute exists, its
\* value is truthy and the value is an instance of the pattern.
EntrySatisfied(instance, entry) ==
    /\ instance[entry[1]].present
    /\ instance[entry[1]].truthy
    /\ instance_of(instance[entry[1]], entry[2])

\* C7: isinstance(x, I) is true exactly when every (name, pattern) of I's
\* signature is satisfied by x: the attribute exists, is truthy and is an
\* instance of the pattern.
C7_InstanceIffAllEntriesSatisfied ==
    sresult.op = "isinstance"
    => sresult.value =
         BoolStr(\A e \in EntrySet(ifaces[sresult.self]) : EntrySatisfied(sresult.subject, e))

\* C7 witness: an interface of two attributes accepted an object.
C7_Witness ==
    /\ sresult.op = "isinstance"
    /\ Len(ifaces[sresult.self].entries) >= 2
    /\ sresult.value = "True"

\* C8: the subclass check is false whenever an attribute of I's signature is
\* absent from the candidate's derived signature, and true only when every
\* attribute of I is present and its pattern is a subclass of I's pattern.
C8_MissingAttributeFails ==
    sresult.op = "issubclass"
    => /\ (\E e \in EntrySet(ifaces[sresult.self]) : sresult.subject[e[1]].where = "absent")
            => sresult.value = "False"
       /\ sresult.value = "True"
            => \A e \in EntrySet(ifaces[sresult.self]) : sresult.subject[e[1]].where # "absent"

\* The pattern the claim compares for a member of the candidate: a plain
\* function with a Callable pattern loses exactly its first parameter.
ComparedPattern(member) ==
    IF member.kind = "function" /\ member.type.k = "callable"
    THEN CallableP(Tail(member.type.params), member.type.ret)
    ELSE member.type

\* C10: for every interface attribute found on the candidate (in its derived
\* signature), the check compares a plain method's Callable pattern without
\* its first parameter and a static or class method's pattern unchanged, and
\* returns true exactly when every such comparison succeeds; so a class
\* having run(self, x: int) -> int satisfies {run: Callable[[int], int]}.
C10_ReceiverStrippedExactlyOnce ==
    LET found == { e \in EntrySet(ifaces[sresult.self]) :
                     sresult.subject[e[1]].where # "absent" }
    IN  sresult.op = "issubclass"
        => sresult.value =
             BoolStr(\A e \in found :
                        subclass_of(ComparedPattern(sresult.subject[e[1]]), e[2]))

\* C10, restricted to candidates whose found attributes are all entries of
\* the class's own __dict__: there the rule above decides the result.
C10_OwnMembersReceiverStripped ==
    LET found == { e \in EntrySet(ifaces[sresult.self]) :
                     sresult.subject[e[1]].where # "absent" }
    IN  (/\ sresult.op = "issubclass"
         /\ \A e \in found : sresult.subject[e[1]].where = "own")
        => sresult.value =
             BoolStr(\A e \in found :
                        subclass_of(ComparedPattern(sresult.subject[e[1]]), e[2]))

\* C10 witness: {run: Callable[[int], int]} accepted a class whose own plain
\* method is run(self, x: int) -> int.
C10_Witness ==
    /\ sresult.op = "issubclass"
    /\ ifaces[sresult.self].entries = << <<"run", CallableP(<<"int">>, "int")>> >>
    /\ sresult.subject["run"] = Member("own", "function", CallableP(<<"Any", "int">>, "int"))
    /\ sresult.value = "True"

(***************************************************************************)
(* Properties of ClsDict and ClsFunction.                                  *)
(***************************************************************************)
\* The entries whose key is compatible with the item's type.
Compatible(items, item) ==
    { i \in 1..Len(items) : subclass_of(get_type(item), items[i][1]) }

Earliest(S) == CHOOSE i \in S : \A j \in S : i <= j

\* C4: table[item] returns the handler of the earliest-inserted entry whose
\* key K satisfies subclass_of(get_type(item), K), even when a later entry
\* has a more specific compatible key.
C4_FirstCompatibleEntryWins ==
    (dresult.op = "getitem" /\ Compatible(table.items, dresult.item) # {})
    => /\ dresult.raised = ""
       /\ dresult.value = table.items[Earliest(Compatible(table.items, dresult.item))][2]

\* C4 witness: object was registered before int with another handler, and an
\* int was dispatched to object's handler.
C4_Witness ==
    /\ dresult.op = "getitem"
    /\ Len(table.items) = 2
    /\ table.items[1][1] = TypeP("object")
    /\ table.items[2][1] = TypeP("int")
    /\ table.items[1][2] # table.items[2][2]
    /\ dresult.item = Item("1", "int")
    /\ dresult.value = table.items[1][2]

C5_Outcome ==
    LET hits == Compatible(table.items, dresult.item)
    IN  /\ (dresult.op = "getitem" /\ hits = {})
            => /\ dresult.raised = "KeyError"
               /\ dresult.message = "No match for " \o dresult.item.repr
        /\ dresult.op = "get"
            => /\ dresult.raised = ""
               /\ dresult.value = IF hits = {} THEN dresult.default
                                  ELSE table.items[Earliest(hits)][2]

C5_TableKept == dresult'.op \in {"getitem", "get"} => table' = table

\* C5: on a miss table[item] raises KeyError naming the item and
\* table.get(item, default) returns the default (None when omitted); on a hit
\* get returns what table[item] returns; neither changes the table.
C5_MissRaisesAndGetDefaults == []C5_Outcome /\ [][C5_TableKept]_vars

\* C5 witness: get returned the caller's default from a non-empty table.
C5_Witness ==
    /\ dresult.op = "get"
    /\ Len(table.items) >= 1
    /\ Compatible(table.items, dresult.item) = {}
    /\ dresult.default = "dflt"
    /\ dresult.value = "dflt"

\* C6: ClsDict(*args) succeeds exactly when args is one dict (or ClsDict)
\* whose keys are all type annotations, and then holds the given items in
\* the given order; every other positional-argument list raises TypeError.
C6_MalformedArgsRaiseTypeError ==
    dresult.op = "new"
    => LET args == dresult.args
           wellFormed == /\ Len(args) = 1
                         /\ IsDict(args[1])
                         /\ AllKeysAreTypes(args[1].items)
       IN  /\ (dresult.raised = "") <=> wellFormed
           /\ ~wellFormed => dresult.raised = "TypeError"
           /\ wellFormed => (table.built /\ table.items = args[1].items)

C9_Outcome ==
    /\ fresult.op = "understands"
        => /\ fresult.value = BoolStr(Compatible(fn.body, fresult.args[1]) # {})
           /\ fresult.invoked = <<>>
    /\ (fresult.op = "call" /\ fresult.args # <<>>)
        => LET hits == Compatible(fn.body, fresult.args[1])
           IN  /\ (fresult.raised = "KeyError") <=> (hits = {})
               /\ hits # {}
                    => /\ fresult.invoked =
                            << [handler |-> fn.body[Earliest(hits)][2],
                                args |-> fresult.args] >>
                       /\ fresult.raised =
                            (IF Len(fresult.args) = HandlerArity(fn.body[Earliest(hits)][2])
                             THEN "" ELSE "TypeError")

C9_FunctionKept == fresult'.op \in {"understands", "call"} => fn' = fn

\* C9: understands(v) is true exactly when the wrapped table has an entry
\* compatible with v, which is exactly when a call fn(v, ...) does not raise
\* KeyError; understands invokes no handler; a call routes on its first
\* argument only and passes all arguments to the first matching handler,
\* whose own TypeError (wrong argument count) is the only other failure;
\* neither changes the function.
C9_UnderstandsIffCallFindsHandler == []C9_Outcome /\ [][C9_FunctionKept]_vars

\* C9 witness: a call with two arguments of different types was routed to
\* a two-parameter handler and returned.
C9_Witness ==
    /\ fresult.op = "call"
    /\ Len(fresult.args) = 2
    /\ fresult.args[1].type # fresult.args[2].type
    /\ Len(fn.body) = 2
    /\ fresult.invoked # <<>>
    /\ fresult.raised = ""

=============================================================================
